---- MODULE Spec2Model ----
(***************************************************************************)
(* Model of the Spotify ingestion pipeline:                                *)
(*   integrations/spotify/auth.py    (token manager)                       *)
(*   integrations/spotify/ingest.py  (endpoint caller, pagination walker,  *)
(*                                    batch collectors, orchestrator)      *)
(* One action per GET issued by call_spotify_endpoint and one action per   *)
(* resumption of its callers.  Files are sequences of rows.                *)
(*                                                                         *)
(* Time is in seconds and is kept relative to the present, because the     *)
(* code only ever compares differences of datetime.now():                  *)
(*   call_age                 = now - LAST_API_CALL, counted up to 1       *)
(*                              (the code tests now < LAST_API_CALL + 1)   *)
(*   token_file[1].ttl        = expires - now, counted down to the safety  *)
(*                              margin (the code tests now < expires-300)  *)
(***************************************************************************)
EXTENDS Integers, Sequences, FiniteSets, TLC

\* ------------------------------------------------------------------ bounds
MaxRuns == 2            \* number of times main() is executed in a behaviour
MaxLatency == 1         \* a GET takes 0..MaxLatency seconds
MaxRetryAfter == 2      \* largest Retry-After header value the API sends

\* ------------------------------------------------- program constants
\* ingest.py:74 (50 in the source, scaled so that a run has several batches)
BATCH_SIZE == 2
\* ingest.py:73 (50000 in the source, scaled to the size of the playlists)
DATASET_SIZE_THRESHOLD == 4
\* ingest.py:108, the retry ceiling of call_spotify_endpoint
MAX_CALLS == 3
\* auth.py:86, the safety margin of a persisted credential, in seconds
TOKEN_MARGIN == 300

\* ------------------------------------------------- the external API
\* data/spotify_ingest_playlist_ids.csv: missing, or one id per row
PlaylistFiles ==
  {[exists |-> FALSE, ids |-> {}],
   [exists |-> TRUE, ids |-> {"p1"}],
   [exists |-> TRUE, ids |-> {"p1", "p2"}]}

\* the pages of a playlist listing: p1 has two pages, p2 lists t2 again
PlaylistPages(p) ==
  IF p = "p1" THEN << <<"t1", "t2">>, <<"t3">> >> ELSE << <<"t2">> >>

\* track['artists'] of the track-metadata response
ArtistsOf(t) ==
  CASE t = "t1" -> <<"a1", "a2">>
    [] t = "t2" -> <<"a1">>
    [] OTHER    -> <<"a3">>

\* response.status_code
StatusCodes == {200, 429, 401, 403, 404, 500}

\* shapes of a 200 body of a batch endpoint
BodyKinds == {"ok", "null_entry", "no_list"}

\* expires_in of the credential exchange: a credential that is stale when
\* it is issued, and one that goes stale two seconds later
Lifetimes == {300, 302}

\* seconds between the end of a run and the start of the next one
Gaps == {0, 3600}

\* the state of the API during a behaviour:
\*   "healthy"          every request is answered 200 with a well-formed body
\*   "audio_forbidden"  as healthy, but audio-features answers 403 every time
\*   "flaky"            any status, any body, the exchange may fail
ApiModes == {"healthy", "audio_forbidden", "flaky"}

\* the endpoints that answer 403 to every request
Forbidden(mode) == IF mode = "audio_forbidden" THEN {"audio"} ELSE {}

\* ------------------------------------------------- helpers
Min(a, b) == IF a < b THEN a ELSE b

Range(s) == {s[k] : k \in 1..Len(s)}

\* every order in which the elements of a set can be iterated
SetOrders(S) == {s \in [1..Cardinality(S) -> S] : Range(s) = S}

\* None, and the JSON bodies of the API
NoData == [data |-> FALSE, has_list |-> FALSE, list |-> <<>>, next |-> 0]

NullEntry == [isnull |-> TRUE, id |-> "", artists |-> <<>>]

Entry(id, artists) == [isnull |-> FALSE, id |-> id, artists |-> artists]

Body(list, next) == [data |-> TRUE, has_list |-> TRUE, list |-> list, next |-> next]

NoRequest == [endpoint |-> "none", ids |-> <<>>, page |-> 0]

NoUrl == [playlist |-> "", page |-> 0]

\* Retry-After headers of a 429 response; -1 stands for an absent header
RetryAfterHeaders == {-1} \cup 1..MaxRetryAfter

\* the item list of a well-formed 200 body for a request
ItemsOf(r) ==
  CASE r.endpoint = "playlist" ->
         [k \in 1..Len(PlaylistPages(r.ids[1])[r.page]) |->
            Entry(PlaylistPages(r.ids[1])[r.page][k], <<>>)]
    [] r.endpoint = "tracks" ->
         [k \in 1..Len(r.ids) |-> Entry(r.ids[k], ArtistsOf(r.ids[k]))]
    [] OTHER ->
         [k \in 1..Len(r.ids) |-> Entry(r.ids[k], <<>>)]

\* playlist_data['next']: the following page, 0 for null
NextOf(r) ==
  IF r.endpoint = "playlist" /\ r.page < Len(PlaylistPages(r.ids[1]))
  THEN r.page + 1 ELSE 0

\* response.json() of a 200 response
Response(r, kind) ==
  CASE kind = "ok" -> Body(ItemsOf(r), NextOf(r))
    [] kind = "null_entry" ->
         Body([k \in 1..Len(ItemsOf(r)) |->
                 IF k = Len(ItemsOf(r)) THEN NullEntry ELSE ItemsOf(r)[k]],
              NextOf(r))
    [] OTHER -> [data |-> TRUE, has_list |-> FALSE, list |-> <<>>, next |-> 0]

\* ------------------------------------------------- auth.py
NoToken == <<>>

\* ttl is expires - now
TokenRecord(token, ttl) == [access_token |-> token, ttl |-> ttl]

\* a store opened with mode 'a'
save_token_append(store, token, ttl) == Append(store, TokenRecord(token, ttl))

\* save_token: the store is opened with mode 'w'
save_token(store, token, ttl) == <<TokenRecord(token, ttl)>>

\* the store d seconds later
Aged(store, d) ==
  IF store = NoToken \/ store[1].ttl <= TOKEN_MARGIN THEN store
  ELSE <<TokenRecord(store[1].access_token,
                     IF store[1].ttl - d < TOKEN_MARGIN THEN TOKEN_MARGIN
                     ELSE store[1].ttl - d)>>

\* a staleness test without the safety margin
NotStale_no_margin(store) ==
  /\ store # NoToken
  /\ 0 < store[1].ttl

\* the staleness test of request_access_token:
\* access_token and expires and now < expires - 300 seconds
NotStale(store) ==
  /\ store # NoToken
  /\ 0 < store[1].ttl - TOKEN_MARGIN

\* Access tokens are opaque strings of which the code uses nothing but
\* their identity.  They are named by age: LatestToken is the token of the
\* latest exchange, Superseded(t) is what the token named t is called once
\* an exchange has issued a newer one.  0 stands for no token.
LatestToken == 1

Superseded(t) == IF t = 0 THEN 0 ELSE t + 1

\* a store whose token an exchange has replaced
Retired(store) ==
  [k \in 1..Len(store) |->
     [access_token |-> Superseded(store[k].access_token),
      ttl |-> store[k].ttl]]

\* the token the exchange endpoint returns: never one it returned before
FreshToken == LatestToken

\* a request_access_token that empties the store when the exchange fails
request_access_token_clearing(store, ex) ==
  IF NotStale(store)
  THEN [raised |-> FALSE, header |-> store[1].access_token,
        store |-> store, posts |-> 0]
  ELSE IF ~ex.ok
  THEN [raised |-> TRUE, header |-> 0, store |-> NoToken, posts |-> 1]
  ELSE [raised |-> FALSE, header |-> FreshToken,
        store |-> save_token(store, FreshToken, ex.expires_in),
        posts |-> 1]

\* request_access_token; ex is the outcome of the POST
\* (ok = FALSE: RequestException) and the expires_in it returns
request_access_token(store, ex) ==
  IF NotStale(store)
  THEN [raised |-> FALSE, header |-> store[1].access_token,
        store |-> store, posts |-> 0]
  ELSE IF ~ex.ok
  THEN [raised |-> TRUE, header |-> 0, store |-> store, posts |-> 1]
  ELSE [raised |-> FALSE, header |-> FreshToken,
        store |-> save_token(store, FreshToken, ex.expires_in),
        posts |-> 1]

ExchangeOutcomes ==
  {[ok |-> FALSE, expires_in |-> 0]} \cup
  {[ok |-> TRUE, expires_in |-> l] : l \in Lifetimes}

NoExchange == [ok |-> FALSE, expires_in |-> 0]

NoAuth == [called |-> FALSE, before |-> NoToken, raised |-> FALSE,
           posts |-> 0, expires_in |-> 0, header |-> 0]

\* TRUE when the call replaces the token by a new one
Exchanged(store, ex) ==
  LET r == request_access_token(store, ex)
  IN r.posts = 1 /\ ~r.raised

\* record of the waiting done by a step that issues a GET:
\*   gap     seconds between the previous assignment of LAST_API_CALL and
\*           the one of this GET, counted up to 1
\*   header  the Retry-After header of a 429 response (-1: none)
\*   slept   seconds slept after the response
NoWaits == [gap |-> -1, header |-> -1, slept |-> 0]

\* record of the request_access_token call made by a step: the store it
\* found, what it did and what it returned
AuthCall(store, ex) ==
  LET r == request_access_token(store, ex)
  IN [called |-> TRUE,
      before |-> IF Exchanged(store, ex) THEN Retired(store) ELSE store,
      raised |-> r.raised,
      posts |-> r.posts,
      expires_in |-> IF r.posts = 1 /\ ~r.raised THEN ex.expires_in ELSE 0,
      header |-> r.header]

\* ------------------------------------------------- ingest.py, pure parts
\* a ceiling that is off by one
BudgetExhausted_late(c) == c > MAX_CALLS + 1

\* the retry ceiling of call_spotify_endpoint
BudgetExhausted(c) == c > MAX_CALLS

\* a filter that keeps the known ids instead of the new ones
RECURSIVE filter_new_inverted(_, _)
filter_new_inverted(ids, known) ==
  IF ids = <<>> THEN <<>>
  ELSE IF Head(ids) \notin known THEN filter_new_inverted(Tail(ids), known)
  ELSE <<Head(ids)>> \o filter_new_inverted(Tail(ids), known)

\* new_track_ids = [track for track in track_ids if track not in known]
RECURSIVE filter_new(_, _)
filter_new(ids, known) ==
  IF ids = <<>> THEN <<>>
  ELSE IF Head(ids) \in known THEN filter_new(Tail(ids), known)
  ELSE <<Head(ids)>> \o filter_new(Tail(ids), known)

\* a ceiling that forgets the ids already in the ledger
OverThreshold_new_only(n_new, n_known) == n_new >= DATASET_SIZE_THRESHOLD

\* a ceiling that lets a run reach the threshold
OverThreshold_strict(n_new, n_known) == n_new + n_known > DATASET_SIZE_THRESHOLD

\* the pre-flight ceiling of main
OverThreshold(n_new, n_known) == n_new + n_known >= DATASET_SIZE_THRESHOLD

\* a reader that counts the rows and forgets the ids
get_existing_ids_blind(file) == [ids |-> {}, n |-> Cardinality(Range(file))]

\* get_existing_ids
get_existing_ids(file) == [ids |-> Range(file), n |-> Cardinality(Range(file))]

HeaderRow == [kind |-> "header", id |-> "", artist_ids |-> <<>>]

DataRow(id, artist_ids) == [kind |-> "row", id |-> id, artist_ids |-> artist_ids]

\* a parse that loses the last pair
parse_track_responses_partial(track_data, audio_features) ==
  LET n == Min(Len(track_data.list), Len(audio_features.list))
      bad == \/ ~track_data.data \/ ~audio_features.data
             \/ ~track_data.has_list \/ ~audio_features.has_list
             \/ \E k \in 1..n : track_data.list[k].isnull
                                \/ audio_features.list[k].isnull
  IN IF bad
     THEN [raised |-> TRUE, features |-> <<>>, artist_ids |-> {}]
     ELSE [raised |-> FALSE,
           features |-> [k \in 1..(n - 1) |-> DataRow(track_data.list[k].id,
                                                      track_data.list[k].artists)],
           artist_ids |-> UNION {Range(track_data.list[k].artists) : k \in 1..n}]

\* parse_track_responses: zip of the two item lists; raises on a missing
\* list (KeyError) and on a null entry (AttributeError)
parse_track_responses(track_data, audio_features) ==
  LET n == Min(Len(track_data.list), Len(audio_features.list))
      bad == \/ ~track_data.data \/ ~audio_features.data
             \/ ~track_data.has_list \/ ~audio_features.has_list
             \/ \E k \in 1..n : track_data.list[k].isnull
                                \/ audio_features.list[k].isnull
  IN IF bad
     THEN [raised |-> TRUE, features |-> <<>>, artist_ids |-> {}]
     ELSE [raised |-> FALSE,
           features |-> [k \in 1..n |-> DataRow(track_data.list[k].id,
                                                track_data.list[k].artists)],
           artist_ids |-> UNION {Range(track_data.list[k].artists) : k \in 1..n}]

\* a test that lets every batch through to the parse
BatchDropped_never(track_data, audio_features) == FALSE

\* a test that forgets the audio-features response
BatchDropped_meta_only(track_data, audio_features) == ~track_data.data

\* the test of collect_track_data that drops a batch
BatchDropped(track_data, audio_features) ==
  ~track_data.data \/ ~audio_features.data

\* parse_artist_responses
parse_artist_responses(artist_data) ==
  LET bad == \/ ~artist_data.data \/ ~artist_data.has_list
             \/ \E k \in 1..Len(artist_data.list) : artist_data.list[k].isnull
  IN IF bad
     THEN [raised |-> TRUE, features |-> <<>>]
     ELSE [raised |-> FALSE,
           features |-> [k \in 1..Len(artist_data.list) |->
                           DataRow(artist_data.list[k].id, <<>>)]]

\* the ids of the rows of a record list, in order
IdsOf(rows) == [k \in 1..Len(rows) |-> rows[k].id]

\* a return that takes the artist loop back to its head, the answer unread
ReturnLabel_loop(endpoint) ==
  CASE endpoint = "playlist" -> "page"
    [] endpoint = "tracks"   -> "meta"
    [] endpoint = "audio"    -> "audio"
    [] OTHER                 -> "artist_loop"

\* where call_spotify_endpoint returns to
ReturnLabel(endpoint) ==
  CASE endpoint = "playlist" -> "page"
    [] endpoint = "tracks"   -> "meta"
    [] endpoint = "audio"    -> "audio"
    [] OTHER                 -> "artist"

\* ------------------------------------------------- state
VARIABLES
  \* durable state
  token_file, track_id_file, artist_id_file,
  track_features_file, artist_features_file, playlist_file,
  \* the API
  api_mode,
  \* module globals of ingest.py
  ACCESS_HEADER, call_age,
  \* main and get_track_ids
  pc, run, playlist_ids, next_url, track_ids,
  known_artist_ids, n_artists, known_track_ids, n_tracks,
  new_track_ids, i, new_artist_ids, new_artist_list, j,
  batch_track_data,
  \* the frame of call_spotify_endpoint
  req, calls, ret,
  \* history
  gets, status, sent, auth, waits, batch_outcome, start_files,
  batch_requested

durable == <<token_file, track_id_file, artist_id_file,
             track_features_file, artist_features_file, playlist_file>>

files == <<track_id_file, artist_id_file,
           track_features_file, artist_features_file>>

locals == <<playlist_ids, next_url, track_ids, known_artist_ids, n_artists,
            known_track_ids, n_tracks, new_track_ids, i, new_artist_ids,
            new_artist_list, j, batch_track_data>>

vars == <<token_file, track_id_file, artist_id_file,
          track_features_file, artist_features_file, playlist_file,
          api_mode, ACCESS_HEADER, call_age,
          pc, run, playlist_ids, next_url, track_ids,
          known_artist_ids, n_artists, known_track_ids, n_tracks,
          new_track_ids, i, new_artist_ids, new_artist_list, j,
          batch_track_data, req, calls, ret,
          gets, status, sent, auth, waits, batch_outcome, start_files,
          batch_requested>>

Init ==
  /\ token_file = NoToken
  /\ track_id_file = <<>>
  /\ artist_id_file = <<>>
  /\ track_features_file = <<>>
  /\ artist_features_file = <<>>
  /\ playlist_file \in PlaylistFiles
  /\ api_mode \in ApiModes
  /\ ACCESS_HEADER = 0
  /\ call_age = 0
  /\ pc = "idle"
  /\ run = 0
  /\ playlist_ids = {}
  /\ next_url = NoUrl
  /\ track_ids = <<>>
  /\ known_artist_ids = {}
  /\ n_artists = 0
  /\ known_track_ids = {}
  /\ n_tracks = 0
  /\ new_track_ids = <<>>
  /\ i = 0
  /\ new_artist_ids = {}
  /\ new_artist_list = <<>>
  /\ j = 0
  /\ batch_track_data = NoData
  /\ waits = NoWaits
  /\ req = NoRequest
  /\ calls = 0
  /\ ret = NoData
  /\ gets = 0
  /\ status = 0
  /\ sent = 0
  /\ auth = NoAuth
  /\ batch_outcome = "none"
  /\ start_files = <<<<>>, <<>>, <<>>, <<>>>>
  /\ batch_requested = FALSE

\* the run is over: main returned or an exception left it
Ended == pc \in {"idle", "no_tracks", "aborted", "done", "crashed"}

\* the frame of call_spotify_endpoint is gone once its result is consumed
EndCall ==
  /\ req' = NoRequest
  /\ calls' = 0
  /\ ret' = NoData
  /\ gets' = 0

\* a fresh frame of call_spotify_endpoint (calls = 0)
StartCall(r) ==
  /\ req' = r
  /\ calls' = 0
  /\ ret' = NoData
  /\ gets' = 0
  /\ pc' = "call"

\* ------------------------------------------------- main, lines 334-341
\* a new process: module globals are initialised, main acquires the
\* credential and get_track_ids reads the playlist file
StartRun ==
  /\ Ended
  /\ run < MaxRuns
  /\ \E gap \in Gaps, ex \in ExchangeOutcomes :
       LET store == Aged(token_file, IF run = 0 THEN 0 ELSE gap)
           r == request_access_token(store, ex)
       IN /\ (run = 0 => gap = 0)
          /\ (NotStale(store) => ex = NoExchange)
          /\ (~NotStale(store) /\ api_mode # "flaky" => ex.ok)
          /\ call_age' = 0
          /\ auth' = AuthCall(store, ex)
          /\ waits' = NoWaits
          /\ token_file' = r.store
          /\ ACCESS_HEADER' = r.header
          /\ pc' = IF r.raised THEN "crashed"
                   ELSE IF ~playlist_file.exists THEN "no_tracks"
                   ELSE "discover"
          /\ playlist_ids' = IF r.raised THEN {} ELSE playlist_file.ids
  /\ run' = run + 1
  /\ start_files' = files
  /\ next_url' = NoUrl
  /\ track_ids' = <<>>
  /\ known_artist_ids' = {}
  /\ n_artists' = 0
  /\ known_track_ids' = {}
  /\ n_tracks' = 0
  /\ new_track_ids' = <<>>
  /\ i' = 0
  /\ new_artist_ids' = {}
  /\ new_artist_list' = <<>>
  /\ j' = 0
  /\ batch_track_data' = NoData
  /\ req' = NoRequest
  /\ calls' = 0
  /\ ret' = NoData
  /\ gets' = 0
  /\ status' = 0
  /\ sent' = 0
  /\ batch_outcome' = "none"
  /\ batch_requested' = FALSE
  /\ UNCHANGED <<files, playlist_file, api_mode>>

\* ------------------------------------------------- get_track_ids
\* for playlist_id in playlist_ids: the first page of the next playlist
NextPlaylist ==
  /\ pc = "discover"
  /\ next_url = NoUrl
  /\ \E p \in playlist_ids :
       /\ playlist_ids' = playlist_ids \ {p}
       /\ next_url' = [playlist |-> p, page |-> 1]
       /\ StartCall([endpoint |-> "playlist", ids |-> <<p>>, page |-> 1])
  /\ status' = 0
  /\ sent' = 0
  /\ auth' = NoAuth
  /\ waits' = NoWaits
  /\ UNCHANGED <<durable, api_mode, ACCESS_HEADER, call_age, run,
                 track_ids, known_artist_ids, n_artists, known_track_ids,
                 n_tracks, new_track_ids, i, new_artist_ids, new_artist_list,
                 j, batch_track_data, batch_outcome, start_files,
                 batch_requested>>

\* while next_url: the following page of the same playlist
NextPage ==
  /\ pc = "discover"
  /\ next_url # NoUrl
  /\ StartCall([endpoint |-> "playlist", ids |-> <<next_url.playlist>>,
                page |-> next_url.page])
  /\ status' = 0
  /\ sent' = 0
  /\ auth' = NoAuth
  /\ waits' = NoWaits
  /\ UNCHANGED <<durable, api_mode, ACCESS_HEADER, call_age, run,
                 locals, batch_outcome, start_files,
                 batch_requested>>

\* a walker that forgets the ids collected so far when a page fails
after_page_forgetful(ids, url, data) ==
  IF ~data.data
  THEN [track_ids |-> <<>>, next_url |-> NoUrl]
  ELSE [track_ids |-> ids \o [k \in 1..Len(data.list) |-> data.list[k].id],
        next_url |-> IF data.next = 0 THEN NoUrl
                     ELSE [playlist |-> url.playlist, page |-> data.next]]

\* lines 163-168: track_ids and next_url once playlist_data is back
after_page(ids, url, data) ==
  IF ~data.data
  THEN [track_ids |-> ids, next_url |-> NoUrl]
  ELSE [track_ids |-> ids \o [k \in 1..Len(data.list) |-> data.list[k].id],
        next_url |-> IF data.next = 0 THEN NoUrl
                     ELSE [playlist |-> url.playlist, page |-> data.next]]

\* lines 163-168: the page came back
PageReturn ==
  /\ pc = "page"
  /\ track_ids' = after_page(track_ids, next_url, ret).track_ids
  /\ next_url' = after_page(track_ids, next_url, ret).next_url
  /\ pc' = "discover"
  /\ status' = 0
  /\ sent' = 0
  /\ auth' = NoAuth
  /\ waits' = NoWaits
  /\ EndCall
  /\ UNCHANGED <<durable, api_mode, ACCESS_HEADER, call_age, run,
                 playlist_ids, known_artist_ids, n_artists, known_track_ids,
                 n_tracks, new_track_ids, i, new_artist_ids, new_artist_list,
                 j, batch_track_data, batch_outcome, start_files, batch_requested>>

\* ------------------------------------------------- call_spotify_endpoint
\* a caller that also refreshes the credential on 403
Refreshes_on_403(s) == s \in {401, 403}

\* line 124: the status that makes the caller refresh the credential
Refreshes(s) == s = 401

\* a pacing test that never sleeps
pacing_sleep_never(age) == IF age < 0 THEN 1 ELSE 0

\* lines 113-114: the pacing sleep, in seconds
pacing_sleep(age) == IF age < 1 THEN 1 ELSE 0

\* a back-off that ignores the header
retry_after_fixed(h) == 1

\* int(response.headers.get('Retry-After', 1))
retry_after(h) == IF h = -1 THEN 1 ELSE h

Waits(h, slept) ==
  [gap |-> call_age + pacing_sleep(call_age), header |-> h, slept |-> slept]

\* now - LAST_API_CALL, d seconds after LAST_API_CALL was set
AgeAfter(d) == Min(d, 1)

\* the clocks once the response of a GET has arrived and the caller has
\* slept `wait` seconds more: the pacing sleep, then 0..MaxLatency seconds
\* between LAST_API_CALL and the response
Clocks(wait) ==
  {[call_age |-> AgeAfter(d + wait),
    token_file |-> Aged(token_file, pacing_sleep(call_age) + d + wait)] :
     d \in 0..MaxLatency}

\* lines 108-116 of one invocation: the GET goes out with ACCESS_HEADER
IssueGet ==
  /\ pc = "call"
  /\ ~BudgetExhausted(calls)
  /\ batch_requested' = (batch_requested \/ req.endpoint # "playlist")

\* lines 108-110: the retry ceiling
GetExhausted ==
  /\ pc = "call"
  /\ BudgetExhausted(calls)
  /\ ret' = NoData
  /\ pc' = ReturnLabel(req.endpoint)
  /\ status' = 0
  /\ sent' = 0
  /\ auth' = NoAuth
  /\ waits' = NoWaits
  /\ calls' = 0
  /\ gets' = 0
  /\ UNCHANGED <<durable, api_mode, ACCESS_HEADER, call_age, run,
                 locals, req, batch_outcome, start_files,
                 batch_requested>>

\* lines 117-118
Get200 ==
  /\ IssueGet
  /\ req.endpoint \notin Forbidden(api_mode)
  /\ \E t \in Clocks(0), kind \in BodyKinds :
       /\ (req.endpoint = "playlist" \/ api_mode # "flaky" => kind = "ok")
       /\ call_age' = t.call_age
       /\ token_file' = t.token_file
       /\ ret' = Response(req, kind)
  /\ status' = 200
  /\ sent' = ACCESS_HEADER
  /\ pc' = ReturnLabel(req.endpoint)
  /\ auth' = NoAuth
  /\ waits' = Waits(-1, 0)
  /\ calls' = 0
  /\ gets' = 0
  /\ UNCHANGED <<files, playlist_file, api_mode, ACCESS_HEADER, run,
                 locals, req, batch_outcome, start_files>>

\* lines 119-123
Get429 ==
  /\ IssueGet
  /\ api_mode = "flaky"
  /\ \E h \in RetryAfterHeaders :
       \E t \in Clocks(retry_after(h)) :
          /\ call_age' = t.call_age
          /\ token_file' = t.token_file
          /\ waits' = Waits(h, retry_after(h))
  /\ status' = 429
  /\ sent' = ACCESS_HEADER
  /\ calls' = calls + 1
  /\ gets' = gets + 1
  /\ auth' = NoAuth
  /\ UNCHANGED <<files, playlist_file, api_mode, ACCESS_HEADER, run,
                 locals, req, ret, pc, batch_outcome, start_files>>

\* lines 124-126
Get401 ==
  /\ IssueGet
  /\ api_mode = "flaky"
  /\ \E t \in Clocks(0), ex \in ExchangeOutcomes :
       LET store == t.token_file
           r == request_access_token(store, ex)
       IN /\ (NotStale(store) => ex = NoExchange)
          /\ call_age' = t.call_age
          /\ auth' = AuthCall(store, ex)
          /\ waits' = Waits(-1, 0)
          /\ token_file' = r.store
          /\ sent' = IF Exchanged(store, ex) THEN Superseded(ACCESS_HEADER)
                     ELSE ACCESS_HEADER
          /\ IF r.raised
             THEN /\ pc' = "crashed"
                  /\ UNCHANGED <<ACCESS_HEADER, calls>>
             ELSE /\ ACCESS_HEADER' = r.header
                  /\ calls' = calls + 1
                  /\ UNCHANGED <<pc>>
  /\ \E s \in {x \in StatusCodes : Refreshes(x)} : status' = s
  /\ gets' = gets + 1
  /\ UNCHANGED <<files, playlist_file, api_mode, run, locals, req, ret,
                 batch_outcome, start_files>>

\* lines 127-137: 403, 404 and every other status
GetRejected ==
  /\ IssueGet
  /\ \E t \in Clocks(0),
        s \in {x \in StatusCodes \ {200, 429} : ~Refreshes(x)} :
       /\ (api_mode # "flaky" => s = 403 /\ req.endpoint \in Forbidden(api_mode))
       /\ call_age' = t.call_age
       /\ token_file' = t.token_file
       /\ status' = s
  /\ sent' = ACCESS_HEADER
  /\ ret' = NoData
  /\ pc' = ReturnLabel(req.endpoint)
  /\ auth' = NoAuth
  /\ waits' = Waits(-1, 0)
  /\ calls' = 0
  /\ gets' = 0
  /\ UNCHANGED <<files, playlist_file, api_mode, ACCESS_HEADER, run,
                 locals, req, batch_outcome, start_files>>

\* ------------------------------------------------- main, lines 338-363
\* every playlist was walked: known ids, the filter, the ceiling, the header
FinishDiscover ==
  /\ pc = "discover"
  /\ next_url = NoUrl
  /\ playlist_ids = {}
  /\ IF track_ids = <<>>
     THEN /\ pc' = "no_tracks"
          /\ UNCHANGED <<known_artist_ids, n_artists, known_track_ids,
                         n_tracks, new_track_ids, track_features_file>>
     ELSE /\ known_artist_ids' = get_existing_ids(artist_id_file).ids
          /\ n_artists' = get_existing_ids(artist_id_file).n
          /\ known_track_ids' = get_existing_ids(track_id_file).ids
          /\ n_tracks' = get_existing_ids(track_id_file).n
          /\ new_track_ids' = filter_new(track_ids, known_track_ids')
          /\ IF OverThreshold(Len(new_track_ids'), n_tracks')
             THEN /\ pc' = "aborted"
                  /\ UNCHANGED track_features_file
             ELSE /\ pc' = "track_loop"
                  /\ track_features_file' =
                       IF n_tracks' = 0
                       THEN Append(track_features_file, HeaderRow)
                       ELSE track_features_file
  /\ status' = 0
  /\ sent' = 0
  /\ auth' = NoAuth
  /\ waits' = NoWaits
  /\ UNCHANGED <<token_file, track_id_file, artist_id_file,
                 artist_features_file, playlist_file, api_mode,
                 ACCESS_HEADER, call_age, run, playlist_ids, next_url,
                 track_ids, i, new_artist_ids, new_artist_list, j,
                 batch_track_data, req, calls, ret, gets, batch_outcome,
                 start_files, batch_requested>>

\* a loop that stops after its first batch
RangeDone_early(k, list) == k >= Min(BATCH_SIZE, Len(list))

\* lines 368 and 393: range(0, n, BATCH_SIZE) is exhausted at index k
RangeDone(k, list) == k >= Len(list)

\* a slice that takes one id more
Slice_wide(list, k) == SubSeq(list, k + 1, Min(k + BATCH_SIZE + 1, Len(list)))

\* new_track_ids[i:i + BATCH_SIZE]
Slice(list, k) == SubSeq(list, k + 1, Min(k + BATCH_SIZE, Len(list)))

\* lines 368-370 and 250-251: the next batch, its metadata call
TrackBatch ==
  /\ pc = "track_loop"
  /\ ~RangeDone(i, new_track_ids)
  /\ StartCall([endpoint |-> "tracks", ids |-> Slice(new_track_ids, i),
                page |-> 0])
  /\ batch_outcome' = "none"
  /\ status' = 0
  /\ sent' = 0
  /\ auth' = NoAuth
  /\ waits' = NoWaits
  /\ UNCHANGED <<durable, api_mode, ACCESS_HEADER, call_age, run,
                 locals, start_files, batch_requested>>

\* line 252: the audio-features call of the same batch
MetaReturn ==
  /\ pc = "meta"
  /\ batch_track_data' = ret
  /\ StartCall([endpoint |-> "audio", ids |-> req.ids, page |-> 0])
  /\ status' = 0
  /\ sent' = 0
  /\ auth' = NoAuth
  /\ waits' = NoWaits
  /\ UNCHANGED <<durable, api_mode, ACCESS_HEADER, call_age, run,
                 playlist_ids, next_url, track_ids, known_artist_ids,
                 n_artists, known_track_ids, n_tracks, new_track_ids, i,
                 new_artist_ids, new_artist_list, j, batch_outcome,
                 start_files, batch_requested>>

\* a loop that appends the id before the record
BatchWrites_id_first(features) ==
  [k \in 1..(2 * Len(features)) |->
     IF k % 2 = 1
     THEN [file |-> "id", row |-> IdsOf(features)[(k + 1) \div 2]]
     ELSE [file |-> "record", row |-> features[k \div 2]]]

\* lines 370-372: the writerow calls of a batch, in program order
BatchWrites(features) ==
  [k \in 1..(2 * Len(features)) |->
     IF k % 2 = 1
     THEN [file |-> "record", row |-> features[(k + 1) \div 2]]
     ELSE [file |-> "id", row |-> IdsOf(features)[k \div 2]]]

\* lines 371-372: file f after the writes of w that go to it
Written(f, w, name) ==
  LET mine == SelectSeq(w, LAMBDA x : x.file = name)
  IN f \o [k \in 1..Len(mine) |-> mine[k].row]

\* a filter that takes every artist id of the batch as new
BatchNewArtistIds_all(batch_artist_ids, known) == batch_artist_ids

\* line 376: batch_artist_ids - known_artist_ids
BatchNewArtistIds(batch_artist_ids, known) == batch_artist_ids \ known

\* lines 253-258 and 371-381: the batch is dropped, raises, or is written
AudioReturn ==
  /\ pc = "audio"
  /\ LET parsed == parse_track_responses(batch_track_data, ret)
         batch_new_artist_ids ==
           BatchNewArtistIds(parsed.artist_ids, known_artist_ids)
     IN IF BatchDropped(batch_track_data, ret)
        THEN /\ batch_outcome' = "dropped"
             /\ pc' = "track_loop"
             /\ i' = i + BATCH_SIZE
             /\ UNCHANGED <<files, known_artist_ids, new_artist_ids>>
        ELSE IF parsed.raised
        THEN /\ batch_outcome' = "malformed"
             /\ pc' = "crashed"
             /\ UNCHANGED <<files, known_artist_ids, new_artist_ids, i>>
        ELSE /\ batch_outcome' = IF parsed.features = <<>> THEN "empty"
                                 ELSE "written"
             /\ pc' = "track_loop"
             /\ i' = i + BATCH_SIZE
             /\ track_features_file' =
                  Written(track_features_file, BatchWrites(parsed.features),
                          "record")
             /\ track_id_file' =
                  Written(track_id_file, BatchWrites(parsed.features), "id")
             /\ \E order \in SetOrders(batch_new_artist_ids) :
                  artist_id_file' = artist_id_file \o order
             /\ new_artist_ids' = new_artist_ids \cup batch_new_artist_ids
             /\ known_artist_ids' = known_artist_ids \cup batch_new_artist_ids
             /\ UNCHANGED artist_features_file
  /\ status' = 0
  /\ sent' = 0
  /\ auth' = NoAuth
  /\ waits' = NoWaits
  /\ EndCall
  /\ batch_track_data' = NoData
  /\ UNCHANGED <<token_file, playlist_file, api_mode,
                 ACCESS_HEADER, call_age, run, playlist_ids, next_url,
                 track_ids, n_artists, known_track_ids, n_tracks,
                 new_track_ids, new_artist_list, j, start_files, batch_requested>>

\* ------------------------------------------------- main, lines 383-401
\* the track files are closed, the artist file is opened, its header
StartArtistPhase ==
  /\ pc = "track_loop"
  /\ RangeDone(i, new_track_ids)
  /\ artist_features_file' = IF n_artists = 0
                             THEN Append(artist_features_file, HeaderRow)
                             ELSE artist_features_file
  /\ new_artist_list' \in SetOrders(new_artist_ids)
  /\ j' = 0
  /\ pc' = "artist_loop"
  /\ status' = 0
  /\ sent' = 0
  /\ auth' = NoAuth
  /\ waits' = NoWaits
  /\ UNCHANGED <<token_file, track_id_file, artist_id_file,
                 track_features_file, playlist_file, api_mode,
                 ACCESS_HEADER, call_age, run, playlist_ids, next_url,
                 track_ids, known_artist_ids, n_artists, known_track_ids,
                 n_tracks, new_track_ids, i, new_artist_ids, batch_track_data,
                 req, calls, ret, gets, batch_outcome, start_files,
                 batch_requested>>

\* lines 394-396 and 307-308: the next artist batch
ArtistBatch ==
  /\ pc = "artist_loop"
  /\ ~RangeDone(j, new_artist_list)
  /\ StartCall([endpoint |-> "artists", ids |-> Slice(new_artist_list, j),
                page |-> 0])
  /\ status' = 0
  /\ sent' = 0
  /\ auth' = NoAuth
  /\ waits' = NoWaits
  /\ UNCHANGED <<durable, api_mode, ACCESS_HEADER, call_age, run,
                 locals, batch_outcome, start_files, batch_requested>>

\* lines 309-314 and 397-399
ArtistReturn ==
  /\ pc = "artist"
  /\ LET parsed == parse_artist_responses(ret)
     IN IF ~ret.data
        THEN /\ pc' = "artist_loop"
             /\ j' = j + BATCH_SIZE
             /\ UNCHANGED artist_features_file
        ELSE IF parsed.raised
        THEN /\ pc' = "crashed"
             /\ UNCHANGED <<artist_features_file, j>>
        ELSE /\ pc' = "artist_loop"
             /\ j' = j + BATCH_SIZE
             /\ artist_features_file' = artist_features_file \o parsed.features
  /\ status' = 0
  /\ sent' = 0
  /\ auth' = NoAuth
  /\ waits' = NoWaits
  /\ EndCall
  /\ UNCHANGED <<token_file, track_id_file, artist_id_file,
                 track_features_file, playlist_file, api_mode,
                 ACCESS_HEADER, call_age, run, playlist_ids, next_url,
                 track_ids, known_artist_ids, n_artists, known_track_ids,
                 n_tracks, new_track_ids, i, new_artist_ids, new_artist_list,
                 batch_track_data, batch_outcome,
                 start_files, batch_requested>>

\* line 401
FinishRun ==
  /\ pc = "artist_loop"
  /\ RangeDone(j, new_artist_list)
  /\ pc' = "done"
  /\ status' = 0
  /\ sent' = 0
  /\ auth' = NoAuth
  /\ waits' = NoWaits
  /\ UNCHANGED <<durable, api_mode, ACCESS_HEADER, call_age, run,
                 locals, req, calls, ret, gets, batch_outcome,
                 start_files, batch_requested>>

Next ==
  \/ StartRun
  \/ NextPlaylist
  \/ NextPage
  \/ PageReturn
  \/ GetExhausted
  \/ Get200
  \/ Get429
  \/ Get401
  \/ GetRejected
  \/ FinishDiscover
  \/ TrackBatch
  \/ MetaReturn
  \/ AudioReturn
  \/ StartArtistPhase
  \/ ArtistBatch
  \/ ArtistReturn
  \/ FinishRun

Spec == Init /\ [][Next]_vars

\* the steps of a run: everything but the start of a new process
RunStep ==
  \/ NextPlaylist
  \/ NextPage
  \/ PageReturn
  \/ GetExhausted
  \/ Get200
  \/ Get429
  \/ Get401
  \/ GetRejected
  \/ FinishDiscover
  \/ TrackBatch
  \/ MetaReturn
  \/ AudioReturn
  \/ StartArtistPhase
  \/ ArtistBatch
  \/ ArtistReturn
  \/ FinishRun

\* one execution of main from the initial files; the started process keeps
\* executing: main is sequential code, every sleep is finite and every GET
\* is answered
FirstStart == run = 0 /\ StartRun

OneRun == FirstStart \/ RunStep

FairSpec == Init /\ [][OneRun]_vars /\ WF_vars(RunStep)

\* ------------------------------------------------- properties
NoDuplicates(s) == \A a, b \in 1..Len(s) : s[a] = s[b] => a = b

\* r is s with some elements deleted: the order of s is kept
IsSubsequence(r, s) ==
  \E f \in [1..Len(r) -> 1..Len(s)] :
    /\ \A k \in 1..Len(r) : r[k] = s[f[k]]
    /\ \A k \in 1..Len(r) : k > 1 => f[k - 1] < f[k]

\* main has computed new_track_ids and has not returned to the shell
FilterDone ==
  \/ pc \in {"aborted", "track_loop", "meta", "audio", "artist_loop",
             "artist", "done"}
  \/ pc = "call" /\ req.endpoint # "playlist"

\* the persisted credential is present and outside its safety margin
Fresh(store) == store # <<>> /\ store[1].ttl > 300

\* a 200 body without its item list, or with a null item
Malformed(body) ==
  body.data /\ (~body.has_list \/ \E k \in 1..Len(body.list) : body.list[k].isnull)

\* C1: every 401 response makes the caller perform exactly one credential
\* exchange, which replaces the credential of the process, and leaves the
\* same request pending with the new credential, whatever the persisted
\* credential is
C1_RefreshOnEvery401 ==
  (status = 401 /\ ~auth.raised) =>
    /\ auth.called
    /\ auth.posts = 1
    /\ ACCESS_HEADER # sent
    /\ ACCESS_HEADER = token_file[1].access_token
    /\ pc = "call"

\* C2: a logical call issues at most 4 GETs (3 retries) whatever the mix of
\* 429 and 401 responses, and once the budget is spent it returns no data
C2_RetryCeiling ==
  [][/\ gets' <= 4
     /\ calls' <= 4
     /\ (pc = "call" /\ gets = 4) =>
          /\ status' = 0
          /\ gets' = 0
          /\ ret' = NoData
          /\ pc' \in {"page", "meta", "audio", "artist"}]_vars

\* the call that has issued its fourth GET and is about to return no data
C2_Witness ==
  /\ pc = "call"
  /\ gets = 4
  /\ calls = 4
  /\ status \in {429, 401}

\* C3: no track id occurs twice in the track-id ledger
C3_LedgerHasNoDuplicates == NoDuplicates(track_id_file)

\* C4: when new ids plus known ids reach the threshold, the run aborts
\* before any write and before any batch request
C4_ThresholdAbort ==
  Len(new_track_ids) + n_tracks >= DATASET_SIZE_THRESHOLD =>
    /\ pc = "aborted"
    /\ files = start_files
    /\ ~batch_requested

C4_Witness ==
  /\ pc = "aborted"
  /\ Len(new_track_ids) + n_tracks >= DATASET_SIZE_THRESHOLD
  /\ Len(track_ids) > 0

\* C5: a batch whose metadata call or audio-features call returned no data
\* is dropped (None, None): nothing of it is written and the loop goes on
C5_DroppedBatchWritesNothing ==
  [][(pc = "audio" /\ (~batch_track_data.data \/ ~ret.data)) =>
       /\ batch_outcome' = "dropped"
       /\ pc' = "track_loop"
       /\ files' = files]_vars

C5_Witness ==
  /\ batch_outcome = "dropped"
  /\ pc = "track_loop"
  /\ i = BATCH_SIZE
  /\ Len(new_track_ids) > 0
  /\ track_id_file = <<>>
  /\ artist_id_file = <<>>

\* C6: a batch with a malformed 200 response is discarded: nothing of it is
\* written, no exception escapes and the run goes on with the next batch
C6_MalformedBatchDiscarded ==
  [][(pc = "audio" /\ batch_track_data.data /\ ret.data
        /\ (Malformed(batch_track_data) \/ Malformed(ret))) =>
       /\ pc' = "track_loop"
       /\ i' = i + BATCH_SIZE
       /\ files' = files]_vars

\* C7: a second run against the same API state, the ledgers holding every
\* id the first run ingested, appends no row to the two ledgers and the two
\* record files
C7_SecondRunAppendsNothing ==
  (run = 2 /\ api_mode # "flaky") => files = start_files

\* C8: the new-id filter keeps the input order, yields exactly the ids that
\* are not known, and is idempotent
C8_FilterNew ==
  FilterDone =>
    /\ IsSubsequence(new_track_ids, track_ids)
    /\ Range(new_track_ids) = Range(track_ids) \ known_track_ids
    /\ filter_new(new_track_ids, known_track_ids) = new_track_ids

C8_Witness ==
  /\ FilterDone
  /\ known_track_ids # {}
  /\ Len(new_track_ids) > 0
  /\ Len(new_track_ids) < Len(track_ids)

\* C9: a persisted credential that is not stale is returned unchanged with
\* no network call and no write of the store; a stale one is never
\* returned without an exchange
C9_NonStaleTokenReused ==
  auth.called =>
    /\ Fresh(auth.before) =>
         /\ ~auth.raised
         /\ auth.posts = 0
         /\ auth.header = auth.before[1].access_token
         /\ ACCESS_HEADER = auth.before[1].access_token
         /\ token_file = auth.before
    /\ ~Fresh(auth.before) => auth.posts = 1

C9_Witness ==
  /\ auth.called
  /\ Fresh(auth.before)
  /\ auth.posts = 0
  /\ status = 401

\* C10: with no persisted credential or a stale one, a successful
\* request_access_token performs one exchange, stores exactly one record
\* {token, now + lifetime} in place of the old store and returns its token
C10_ExchangeOverwritesStore ==
  (auth.called /\ ~Fresh(auth.before) /\ ~auth.raised) =>
    /\ auth.posts = 1
    /\ auth.expires_in \in Lifetimes
    /\ token_file = <<[access_token |-> auth.header, ttl |-> auth.expires_in]>>
    /\ ACCESS_HEADER = auth.header
    /\ auth.header # 0

C10_Witness ==
  /\ auth.called
  /\ auth.before # <<>>
  /\ ~Fresh(auth.before)
  /\ ~auth.raised
  /\ auth.posts = 1
  /\ Len(token_file) = 1

\* C11: a failed credential exchange propagates to the caller (the process
\* ends with the exception, ACCESS_HEADER gets no new token) and leaves the
\* credential store as it was found; a step that puts a record into the
\* store, or one with a later expiry, is a step with a successful exchange
C11_FailedExchangeLeavesStore ==
  [][/\ (auth'.called /\ auth'.raised) =>
          /\ auth'.posts = 1
          /\ token_file' = auth'.before
          /\ ACCESS_HEADER' \in {0, ACCESS_HEADER}
          /\ pc' = "crashed"
     /\ (\/ Len(token_file') # Len(token_file)
         \/ (token_file # NoToken /\ token_file' # NoToken
               /\ token_file'[1].ttl > token_file[1].ttl)) =>
          /\ auth'.called
          /\ auth'.posts = 1
          /\ ~auth'.raised]_vars

\* an exchange failed on a 401 while the store held a stale credential
C11_Witness ==
  /\ auth.called
  /\ auth.raised
  /\ status = 401
  /\ auth.before # NoToken
  /\ token_file = auth.before
  /\ pc = "crashed"

\* C12: after a 429 response with Retry-After: n the caller has slept at
\* least n seconds (at least 1 second when the header is absent) and the
\* call stays pending with the same request, i.e. the same URL
C12_BackoffHonoursRetryAfter ==
  [][status' = 429 =>
       /\ waits'.slept >= (IF waits'.header = -1 THEN 1 ELSE waits'.header)
       /\ pc' = "call"
       /\ req' = req
       /\ calls' = calls + 1]_vars

\* a 429 that asked for more than the default second
C12_Witness ==
  /\ status = 429
  /\ waits.header = 2
  /\ waits.slept = 2
  /\ pc = "call"
  /\ req.endpoint = "playlist"
  /\ req.page = 2

\* C13: every GET is issued at least 1 second after LAST_API_CALL was last
\* assigned, i.e. after the GET before it
C13_GetsOneSecondApart ==
  status # 0 => waits.gap >= 1

\* a retry that follows a 401 answered at once: the pacing sleep is what
\* separates the two GETs
C13_Witness ==
  /\ status = 401
  /\ gets = 2
  /\ call_age = 0
  /\ waits.gap = 1
  /\ pc = "call"

\* C14: a response with a status other than 200, 429 and 401 ends the
\* logical request at once: control is back with the caller, which gets no
\* data, the frame of the call is gone, request_access_token was not
\* called and nothing was slept after the response
C14_RejectedReturnsNoData ==
  status \notin {0, 200, 429, 401} =>
    /\ pc = ReturnLabel(req.endpoint)
    /\ ret = NoData
    /\ calls = 0
    /\ gets = 0
    /\ ~auth.called
    /\ waits.slept = 0

\* the second page of a playlist answered 404
C14_Witness ==
  /\ status = 404
  /\ pc = "page"
  /\ req.page = 2
  /\ ret = NoData
  /\ ~auth.called

\* C15: the walker requests the page that next_url names; a page that came
\* back appends its ids and moves next_url to the 'next' of the response
\* (none when it is null); a page that returned no data ends the listing of
\* its playlist only: the ids collected so far and the playlists still to
\* walk are kept, and the walk goes on with one of them
C15_PaginationWalk ==
  [][/\ (pc = "page" /\ ~ret.data) =>
          /\ track_ids' = track_ids
          /\ next_url' = NoUrl
          /\ playlist_ids' = playlist_ids
          /\ pc' = "discover"
     /\ (pc = "page" /\ ret.data) =>
          /\ Len(track_ids') = Len(track_ids) + Len(ret.list)
          /\ SubSeq(track_ids', 1, Len(track_ids)) = track_ids
          /\ \A k \in 1..Len(ret.list) :
               track_ids'[Len(track_ids) + k] = ret.list[k].id
          /\ next_url' = IF ret.next = 0 THEN NoUrl
                         ELSE [playlist |-> next_url.playlist,
                               page |-> ret.next]
          /\ playlist_ids' = playlist_ids
     /\ (pc = "discover" /\ next_url # NoUrl) =>
          /\ pc' = "call"
          /\ req' = [endpoint |-> "playlist", ids |-> <<next_url.playlist>>,
                     page |-> next_url.page]
          /\ track_ids' = track_ids
     /\ (pc = "discover" /\ next_url = NoUrl /\ playlist_ids # {}) =>
          /\ pc' = "call"
          /\ req'.endpoint = "playlist"
          /\ req'.ids[1] \in playlist_ids
          /\ req'.page = 1
          /\ track_ids' = track_ids]_vars

\* the second page of p1 returned no data: its first page is kept and p2 is
\* requested next
C15_Witness ==
  /\ pc = "call"
  /\ req = [endpoint |-> "playlist", ids |-> <<"p2">>, page |-> 1]
  /\ track_ids = <<"t1", "t2">>
  /\ playlist_ids = {}

\* C16: a run that ended in a fatal case (the playlist file is missing, the
\* credential exchange failed, no track id was discovered) left the ledgers
\* and the record files as they were when it started and did not write the
\* credential store
C16_FatalRunMutatesNothing ==
  (\/ pc = "no_tracks"
   \/ (pc = "crashed" /\ auth.called /\ auth.raised)) =>
     /\ files = start_files
     /\ (auth.called => token_file = auth.before)
     /\ (run = 1 => token_file = NoToken)

\* a record file that is empty, or starts with its only header row
HeaderOnce(f) ==
  \/ f = <<>>
  \/ /\ f[1] = HeaderRow
     /\ \A k \in 2..Len(f) : f[k] # HeaderRow

\* C17: opening the track phase appends the header row to the track record
\* file if and only if the file was empty, so the file never holds anything
\* but one header row, in first place, followed by data rows
C17_TrackHeaderOnce ==
  [][/\ (pc = "discover" /\ pc' = "track_loop") =>
          ((track_features_file' = Append(track_features_file, HeaderRow))
             <=> (track_features_file = <<>>))
     /\ HeaderOnce(track_features_file')]_vars

\* C18: opening the artist phase appends the header row to the artist
\* record file only if the file was empty; the file never holds a second
\* header row, and never data rows without the header above them
C18_ArtistHeaderOnce ==
  [][/\ (pc = "track_loop" /\ pc' = "artist_loop"
          /\ artist_features_file' # artist_features_file) =>
          artist_features_file = <<>>
     /\ HeaderOnce(artist_features_file')]_vars

\* the artist ids of the data rows f received after its first n rows
ArtistsIn(f, n) ==
  UNION {Range(f[k].artist_ids) : k \in {m \in (n + 1)..Len(f) : f[m] # HeaderRow}}

\* C19: every artist id of a request to the artists endpoint is an artist
\* of a track row written by this run and is not a row of the artist ledger
\* as it was when the run started
C19_OnlyNewArtistsRequested ==
  req.endpoint = "artists" =>
    \A a \in Range(req.ids) :
       /\ a \in ArtistsIn(track_features_file, Len(start_files[3]))
       /\ a \notin Range(start_files[2])

\* the second run requests a3, found with t3, the ledger holding a1 and a2
C19_Witness ==
  /\ pc = "call"
  /\ req.endpoint = "artists"
  /\ req.ids = <<"a3">>
  /\ Range(start_files[2]) = {"a1", "a2"}
  /\ run = 2

\* the rows f2 holds after those of f1
Appended(f1, f2) == SubSeq(f2, Len(f1) + 1, Len(f2))

RecordIds(f) ==
  LET rows == SelectSeq(f, LAMBDA r : r # HeaderRow)
  IN [k \in 1..Len(rows) |-> rows[k].id]

\* C21: as long as no run has crashed, the track record file holds at most
\* one record for any track id (stated for the first run, which no crash
\* precedes, up to the point where it would crash)
C21_OneRecordPerTrack ==
  (run = 1 /\ pc # "crashed") => NoDuplicates(RecordIds(track_features_file))

\* C22: the artist ledger never holds an id twice, and in the track phase
\* the known artist ids are exactly the rows of the ledger (those found at
\* the start of the run and those appended since), so an id is appended
\* only when it is not known
C22_ArtistLedgerDuplicateFree ==
  /\ NoDuplicates(artist_id_file)
  /\ pc \in {"track_loop", "meta", "audio"} =>
       known_artist_ids = Range(artist_id_file)

\* t2 came twice: its artist a1, shared by both batches, was appended once
C22_Witness ==
  /\ pc = "track_loop"
  /\ batch_outcome = "written"
  /\ new_track_ids = <<"t1", "t2", "t2">>
  /\ i >= Len(new_track_ids)
  /\ Len(artist_id_file) = 2
  /\ Range(artist_id_file) = {"a1", "a2"}

\* the k-th id the ledger received after its first n has its record among
\* the rows the record file received after its first m, in the same place
RecordThenId(ledger, n, records, m) ==
  LET ids == SubSeq(ledger, n + 1, Len(ledger))
      recs == RecordIds(SubSeq(records, m + 1, Len(records)))
  IN /\ Len(ids) <= Len(recs)
     /\ \A k \in 1..Len(ids) : ids[k] = recs[k]

\* C23: between batches, and after each single writerow of the batch that
\* is about to be written, every track id this run has appended to the
\* ledger already has its record in the track record file
C23_RecordThenId ==
  /\ RecordThenId(track_id_file, Len(start_files[1]),
                  track_features_file, Len(start_files[3]))
  /\ (pc = "audio" /\ ~BatchDropped(batch_track_data, ret)) =>
       LET w == BatchWrites(parse_track_responses(batch_track_data, ret).features)
       IN \A n \in 0..Len(w) :
            RecordThenId(Written(track_id_file, SubSeq(w, 1, n), "id"),
                         Len(start_files[1]),
                         Written(track_features_file, SubSeq(w, 1, n), "record"),
                         Len(start_files[3]))

\* both batches of t1, t2, t3 were written, record before id
C23_Witness ==
  /\ pc = "track_loop"
  /\ batch_outcome = "written"
  /\ track_id_file = <<"t1", "t2", "t3">>
  /\ RecordIds(track_features_file) = <<"t1", "t2", "t3">>
  /\ start_files[1] = <<>>

\* the phase a state of a run is in: 1 discover, 2 track ingestion,
\* 3 artist enrichment, 4 ended
Phase(label, endpoint) ==
  CASE label \in {"discover", "page"} -> 1
    [] label \in {"track_loop", "meta", "audio"} -> 2
    [] label \in {"artist_loop", "artist"} -> 3
    [] label = "call" ->
         (CASE endpoint = "playlist" -> 1
            [] endpoint \in {"tracks", "audio"} -> 2
            [] OTHER -> 3)
    [] OTHER -> 4

\* C24: within a run the phase never goes back; a track batch request is
\* pending only when every playlist has been walked to its end, an artist
\* batch request only when every track batch has been processed
C24_PhaseOrder ==
  [][/\ run' = run => Phase(pc', req'.endpoint) >= Phase(pc, req.endpoint)
     /\ req'.endpoint \in {"tracks", "audio"} =>
          (playlist_ids' = {} /\ next_url' = NoUrl)
     /\ req'.endpoint = "artists" =>
          /\ i' >= Len(new_track_ids')
          /\ playlist_ids' = {} /\ next_url' = NoUrl]_vars

\* the first artist batch is requested once both playlists are walked and
\* both track batches are processed
C24_Witness ==
  /\ pc = "call"
  /\ req.endpoint = "artists"
  /\ j = 0
  /\ i = 2 * BATCH_SIZE
  /\ Len(new_track_ids) = 3
  /\ playlist_file.ids = {"p1", "p2"}

\* ids is the batch of list that starts at index k: k is a multiple of the
\* batch size, and ids is the run of at most BATCH_SIZE elements after it
IsBatchAt(ids, list, k) ==
  /\ k % BATCH_SIZE = 0
  /\ k < Len(list)
  /\ Len(ids) \in 1..BATCH_SIZE
  /\ Len(ids) = (IF Len(list) - k < BATCH_SIZE THEN Len(list) - k
                 ELSE BATCH_SIZE)
  /\ \A n \in 1..Len(ids) : ids[n] = list[k + n]

\* C25: every batch request carries the contiguous run of at most
\* BATCH_SIZE list elements at the loop index; the index moves only when
\* the batch at it has been answered, by BATCH_SIZE, so batches are
\* processed one at a time in list order; a run that ends normally has
\* submitted every element of both lists
C25_ContiguousBatches ==
  [][/\ req'.endpoint \in {"tracks", "audio"} =>
          IsBatchAt(req'.ids, new_track_ids', i')
     /\ req'.endpoint = "artists" =>
          IsBatchAt(req'.ids, new_artist_list', j')
     /\ (run' = run /\ i' # i) => (pc \in {"meta", "audio"} /\ i' = i + BATCH_SIZE)
     /\ (run' = run /\ j' # j) => (pc = "artist" /\ j' = j + BATCH_SIZE)
     /\ pc' = "done" =>
          (i' >= Len(new_track_ids') /\ j' >= Len(new_artist_list'))]_vars

\* the second artist batch: the third of three new artists
C25_Witness ==
  /\ pc = "call"
  /\ req.endpoint = "artists"
  /\ j = BATCH_SIZE
  /\ Len(new_artist_list) = 3
  /\ req.ids = <<new_artist_list[3]>>

\* C26: a unit of work that returned no data (a track batch, an artist
\* batch, a playlist page) leaves the run in its loop with the index moved
\* to the next unit and the remaining playlists kept; a loop that has a
\* unit left requests it next; and a batch whose responses are well formed
\* has its records written whatever happened to the batches before it
C26_DropDoesNotStopRun ==
  [][/\ (pc = "audio" /\ (~batch_track_data.data \/ ~ret.data)) =>
          (pc' = "track_loop" /\ i' = i + BATCH_SIZE)
     /\ (pc = "artist" /\ ~ret.data) =>
          (pc' = "artist_loop" /\ j' = j + BATCH_SIZE)
     /\ (pc = "page" /\ ~ret.data) =>
          (pc' = "discover" /\ playlist_ids' = playlist_ids)
     /\ (pc = "track_loop" /\ i < Len(new_track_ids)) =>
          (pc' = "call" /\ req'.endpoint = "tracks"
           /\ req'.ids[1] = new_track_ids[i + 1])
     /\ (pc = "artist_loop" /\ j < Len(new_artist_list)) =>
          (pc' = "call" /\ req'.endpoint = "artists"
           /\ req'.ids[1] = new_artist_list[j + 1])
     /\ (pc = "audio" /\ batch_track_data.data /\ ret.data
           /\ ~Malformed(batch_track_data) /\ ~Malformed(ret)) =>
          RecordIds(Appended(track_features_file, track_features_file'))
            = [k \in 1..Len(req.ids) |-> req.ids[k]]
     /\ (pc = "artist" /\ ret.data /\ ~Malformed(ret)) =>
          RecordIds(Appended(artist_features_file, artist_features_file'))
            = [k \in 1..Len(req.ids) |-> req.ids[k]]]_vars

\* the first track batch was dropped, the second one is written
C26_Witness ==
  /\ pc = "track_loop"
  /\ batch_outcome = "written"
  /\ new_track_ids = <<"t1", "t2", "t3">>
  /\ i = 2 * BATCH_SIZE
  /\ track_id_file = <<"t3">>
  /\ run = 1

\* C27: when a run ends normally, every artist id it appended to the
\* artist ledger has a record in the artist record file
C27_LedgerArtistsHaveRecords ==
  pc = "done" =>
    Range(Appended(start_files[2], artist_id_file))
      \subseteq Range(RecordIds(artist_features_file))

Distinct(f) == Cardinality(Range(f))

\* C28: a track ledger that held fewer distinct ids than the threshold when
\* the run started holds fewer than the threshold at every point of the
\* run; once the pre-flight test has let the run through, the distinct ids
\* of the ledger are at most the known count plus the number of new ids,
\* which is below the threshold
C28_CeilingNeverReached ==
  /\ Distinct(start_files[1]) < DATASET_SIZE_THRESHOLD =>
       Distinct(track_id_file) < DATASET_SIZE_THRESHOLD
  /\ (Phase(pc, req.endpoint) \in {2, 3} \/ pc = "done") =>
       /\ Distinct(track_id_file) <= n_tracks + Len(new_track_ids)
       /\ n_tracks + Len(new_track_ids) < DATASET_SIZE_THRESHOLD

\* the second run found two known ids and one new id, one below the
\* threshold, and has written it
C28_Witness ==
  /\ pc = "done"
  /\ run = 2
  /\ n_tracks = 2
  /\ Len(new_track_ids) = 1
  /\ Distinct(track_id_file) = DATASET_SIZE_THRESHOLD - 1

\* C29: the ids of a track batch that has just been dropped are not in the
\* track ledger, so that a later run finds them new
C29_DroppedIdsStayNew ==
  (pc = "track_loop" /\ batch_outcome = "dropped") =>
    \A t \in Range(Slice(new_track_ids, i - BATCH_SIZE)) :
       t \notin Range(track_id_file)

\* C30: no logical request costs more than MAX_CALLS + 1 GETs, and every
\* run that has started reaches its end, an abort or a crash, whatever the
\* responses are
C30_RunTerminates ==
  /\ [](gets <= MAX_CALLS + 1)
  /\ (~Ended ~> Ended)

\* a run over both playlists that lost a page, wrote a track batch and lost
\* its artist batch has ended
C30_Witness ==
  /\ pc = "done"
  /\ run = 1
  /\ playlist_file.ids = {"p1", "p2"}
  /\ track_id_file = <<"t1", "t2", "t2">>
  /\ Len(artist_features_file) = 1

====
